---- MODULE Spec2Model ----
(***************************************************************************)
(* A model of src/app.py, the rule-based semantic disambiguation pipeline. *)
(*                                                                         *)
(* Python strings are modelled as sequences of one-character strings, so   *)
(* that lower-casing, the regular-expression tokenizer, substring tests,   *)
(* f-string formatting and the split/strip parsing of relation strings are *)
(* computed character by character, as the code computes them.             *)
(*                                                                         *)
(* Python's None is modelled as the empty sequence: the only other values  *)
(* a frame slot ever holds are tokens matched by \w+, which are never      *)
(* empty, and the code only tests slots for truthiness.                    *)
(***************************************************************************)
EXTENDS Naturals, Sequences, FiniteSets, TLC

VARIABLES text, pc, words, senses, structural, tokens, tags, frame, i, unl, G

vars == <<text, pc, words, senses, structural, tokens, tags, frame, i, unl, G>>

\* Longest sentence, in words, that Init draws besides the default sentence.
MaxWords == 4

Range(s) == {s[k] : k \in DOMAIN s}

----------------------------------------------------------------------------
(* Characters and strings *)

Lowers ==
  <<"a","b","c","d","e","f","g","h","i","j","k","l","m",
    "n","o","p","q","r","s","t","u","v","w","x","y","z">>

Uppers ==
  <<"A","B","C","D","E","F","G","H","I","J","K","L","M",
    "N","O","P","Q","R","S","T","U","V","W","X","Y","Z">>

Digits == {"0","1","2","3","4","5","6","7","8","9"}

\* The characters the regular expression's \w matches.
WordChars == Range(Lowers) \cup Range(Uppers) \cup Digits \cup {"_"}

LowerChar(c) ==
  IF c \in Range(Uppers)
  THEN Lowers[CHOOSE k \in DOMAIN Uppers : Uppers[k] = c]
  ELSE c

\* str.lower()
Lower(s) == [k \in DOMAIN s |-> LowerChar(s[k])]

\* Python's  pat in s  on strings: substring containment.
Contains(s, pat) ==
  \E k \in 0..(Len(s) - Len(pat)) : SubSeq(s, k + 1, k + Len(pat)) = pat

\* str.endswith
EndsWith(s, suf) ==
  /\ Len(s) >= Len(suf)
  /\ SubSeq(s, Len(s) - Len(suf) + 1, Len(s)) = suf

\* any(x in sentence for x in xs)
AnyIn(xs, sentence) == \E k \in DOMAIN xs : Contains(sentence, xs[k])

\* re.findall(r"\b\w+\b", s): the maximal runs of word characters, in order.
RECURSIVE FindWords(_, _, _, _)
FindWords(s, k, cur, acc) ==
  IF k > Len(s)
  THEN IF cur = <<>> THEN acc ELSE Append(acc, cur)
  ELSE IF s[k] \in WordChars
       THEN FindWords(s, k + 1, Append(cur, s[k]), acc)
       ELSE FindWords(s, k + 1, <<>>, IF cur = <<>> THEN acc ELSE Append(acc, cur))

\* A tokenizer that forgets to lower-case the sentence.
simple_tokenize_NoLower(sentence) == FindWords(sentence, 1, <<>>, <<>>)

simple_tokenize(sentence) == FindWords(Lower(sentence), 1, <<>>, <<>>)

\* str.split(sep) for a one-character separator.
RECURSIVE SplitFrom(_, _, _, _, _)
SplitFrom(s, sep, k, cur, acc) ==
  IF k > Len(s)
  THEN Append(acc, cur)
  ELSE IF s[k] = sep
       THEN SplitFrom(s, sep, k + 1, <<>>, Append(acc, cur))
       ELSE SplitFrom(s, sep, k + 1, Append(cur, s[k]), acc)

Split(s, sep) == SplitFrom(s, sep, 1, <<>>, <<>>)

\* str.strip(ch) for a one-character argument: drop it from both ends.
RECURSIVE LStrip(_, _)
LStrip(s, ch) ==
  IF s # <<>> /\ Head(s) = ch THEN LStrip(Tail(s), ch) ELSE s

RECURSIVE RStrip(_, _)
RStrip(s, ch) ==
  IF s # <<>> /\ s[Len(s)] = ch THEN RStrip(SubSeq(s, 1, Len(s) - 1), ch) ELSE s

Strip(s, ch) == RStrip(LStrip(s, ch), ch)

\* Python's None, and the truthiness test  if x  /  not x  on a slot.
None == <<>>

Truthy(x) == x # <<>>

\* What an f-string prints for a slot value: str(None) is "None".
PyStr(x) == IF x = None THEN <<"N","o","n","e">> ELSE x

----------------------------------------------------------------------------
(* The words the sentences are made of *)

bank == <<"b","a","n","k">>
Bank == <<"B","a","n","k">>
banks == <<"b","a","n","k","s">>
bat == <<"b","a","t">>
telescope == <<"t","e","l","e","s","c","o","p","e">>
man == <<"m","a","n">>
river == <<"r","i","v","e","r">>
River == <<"R","i","v","e","r">>
rivers == <<"r","i","v","e","r","s">>
water == <<"w","a","t","e","r">>
money == <<"m","o","n","e","y">>
cricket == <<"c","r","i","c","k","e","t">>
bang == <<"!">>
capI == <<"I">>
lowI == <<"i">>
saw == <<"s","a","w">>
run == <<"r","u","n">>
the == <<"t","h","e">>
with == <<"w","i","t","h">>
by == <<"b","y">>
walking == <<"w","a","l","k","i","n","g">>
capNone == <<"N","o","n","e">>

\* The pieces joined by single spaces.
RECURSIVE Join(_)
Join(ps) ==
  IF ps = <<>> THEN <<>>
  ELSE IF Len(ps) = 1 THEN ps[1]
  ELSE ps[1] \o <<" ">> \o Join(Tail(ps))

Sentences(V) ==
  {Join(ps) : ps \in UNION {[1..n -> V] : n \in 0..MaxWords}}

LexWords ==
  {bank, Bank, banks, telescope, river, River, rivers, water, money, bang}

FrameWords == {capI, saw, run, man, the, with, by, walking, capNone}

\* The default value of the text input.
DefaultText == Join(<<capI, saw, the, man, with, the, telescope>>)

----------------------------------------------------------------------------
(* The lexical knowledge base *)

lexical_db ==
  (bank :> <<"financial institution", "river side">>) @@
  (bat :> <<"flying mammal", "cricket equipment">>) @@
  (telescope :> <<"optical instrument">>) @@
  (man :> <<"human male", "person">>)

----------------------------------------------------------------------------
(* Lexical and structural disambiguation *)

\* The index the trigger words of the raw sentence select, matching on the
\* lower-cased sentence instead of the sentence as given.
SenseIndexLowered(sentence) ==
  IF AnyIn(<<river, water>>, Lower(sentence)) THEN 1
  ELSE IF AnyIn(<<money, cricket>>, Lower(sentence)) THEN 0
  ELSE 0

\* The index into lexical_db[w] that the if/elif/else chain selects.
SenseIndex(sentence) ==
  IF AnyIn(<<river, water>>, sentence) THEN 1
  ELSE IF AnyIn(<<money, cricket>>, sentence) THEN 0
  ELSE 0

\* senses[w] = v on a dict: a new key is added, an old one is overwritten.
DictPut(d, key, v) ==
  [x \in DOMAIN d \cup {key} |-> IF x = key THEN v ELSE d[x]]

\* A loop that stops one word short.
WordsLeftButLast(k, ws) == k < Len(ws)

\* for w in words: there is a word left to visit.
WordsLeft(k, ws) == k <= Len(ws)

\* lexical_disambiguation is entered: words and the empty senses dict.
LexCall ==
  /\ pc = "start"
  /\ words' = simple_tokenize(text)
  /\ senses' = <<>>
  /\ i' = 1
  /\ pc' = "lex_loop"
  /\ UNCHANGED <<text, structural, tokens, tags, frame, unl, G>>

\* One iteration of the loop over words. Indexing a sense list past its
\* end raises IndexError, which nothing catches.
LexStep ==
  /\ pc = "lex_loop"
  /\ WordsLeft(i, words)
  /\ LET w == words[i]
     IN IF w \in DOMAIN lexical_db
        THEN LET k == SenseIndex(text)
             IN IF k < Len(lexical_db[w])
                THEN /\ senses' = DictPut(senses, w, lexical_db[w][k + 1])
                     /\ i' = i + 1
                     /\ pc' = pc
                ELSE /\ pc' = "raised"
                     /\ UNCHANGED <<senses, i>>
        ELSE /\ i' = i + 1
             /\ UNCHANGED <<senses, pc>>
  /\ UNCHANGED <<text, words, structural, tokens, tags, frame, unl, G>>

\* The loop is exhausted and senses is returned.
LexReturn ==
  /\ pc = "lex_loop"
  /\ ~WordsLeft(i, words)
  /\ pc' = "lex_returned"
  /\ UNCHANGED <<text, words, senses, structural, tokens, tags, frame, i, unl, G>>

structural_disambiguation(sentence) ==
  IF Contains(sentence, with)
  THEN "Possible PP-attachment ambiguity detected ('with' phrase)."
  ELSE "No major structural ambiguity detected."

StructuralCall ==
  /\ pc = "lex_returned"
  /\ structural' = structural_disambiguation(text)
  /\ pc' = "struct_returned"
  /\ UNCHANGED <<text, words, senses, tokens, tags, frame, i, unl, G>>

EmptyFrame == [Actor |-> None, Action |-> None, Object |-> None, Modifier |-> None]

EmptyGraph == [nodes |-> {}, edges |-> <<>>]

InitRest ==
  /\ pc = "start"
  /\ words = <<>>
  /\ senses = <<>>
  /\ structural = ""
  /\ tokens = <<>>
  /\ tags = <<>>
  /\ frame = EmptyFrame
  /\ i = 1
  /\ unl = <<>>
  /\ G = EmptyGraph

InitLex ==
  /\ text \in Sentences(LexWords)
  /\ InitRest

NextLex == LexCall \/ LexStep \/ LexReturn \/ StructuralCall

\* The calls of lexical_disambiguation and structural_disambiguation.
SpecLex == InitLex /\ [][NextLex]_vars

----------------------------------------------------------------------------
(* Part-of-speech guessing and the semantic frame *)

verbs ==
  { <<"s","e","e">>, saw, <<"w","a","l","k">>, run, <<"e","a","t">>,
    <<"m","a","k","e">>, <<"t","a","k","e">>, <<"s","h","o","w">> }

preps ==
  { <<"i","n">>, <<"o","n">>, with, <<"t","o">>, <<"f","r","o","m">>, by }

\* The tag of one word: the if/elif chain of simple_pos_tag.
TagOf(word) ==
  IF word \in verbs THEN "VB"
  ELSE IF word \in preps THEN "IN"
  ELSE IF EndsWith(word, <<"i","n","g">>) THEN "VBG"
  ELSE IF EndsWith(word, <<"e","d">>) THEN "VBD"
  ELSE IF EndsWith(word, <<"l","y">>) THEN "RB"
  ELSE "NN"

simple_pos_tag(toks) == [k \in DOMAIN toks |-> <<toks[k], TagOf(toks[k])>>]

\* The loop body with Object filled only while it is unset.
FrameUpdateObjectGuarded(f, word, tag) ==
  IF tag = "VB" /\ ~Truthy(f.Action) THEN [f EXCEPT !.Action = word]
  ELSE IF tag = "NN" /\ ~Truthy(f.Actor) THEN [f EXCEPT !.Actor = word]
  ELSE IF tag = "NN" /\ Truthy(f.Actor) /\ ~Truthy(f.Object)
       THEN [f EXCEPT !.Object = word]
  ELSE IF tag = "IN" THEN [f EXCEPT !.Modifier = word]
  ELSE f

\* The loop body with Modifier filled only while it is unset.
FrameUpdateModifierGuarded(f, word, tag) ==
  IF tag = "VB" /\ ~Truthy(f.Action) THEN [f EXCEPT !.Action = word]
  ELSE IF tag = "NN" /\ ~Truthy(f.Actor) THEN [f EXCEPT !.Actor = word]
  ELSE IF tag = "NN" /\ Truthy(f.Actor) THEN [f EXCEPT !.Object = word]
  ELSE IF tag = "IN" /\ ~Truthy(f.Modifier) THEN [f EXCEPT !.Modifier = word]
  ELSE f

\* The loop body with Action assigned on every verb.
FrameUpdateActionUnguarded(f, word, tag) ==
  IF tag = "VB" THEN [f EXCEPT !.Action = word]
  ELSE IF tag = "NN" /\ ~Truthy(f.Actor) THEN [f EXCEPT !.Actor = word]
  ELSE IF tag = "NN" /\ Truthy(f.Actor) THEN [f EXCEPT !.Object = word]
  ELSE IF tag = "IN" THEN [f EXCEPT !.Modifier = word]
  ELSE f

\* The body of the loop over tags: the frame after one (word, tag).
FrameUpdate(f, word, tag) ==
  IF tag = "VB" /\ ~Truthy(f.Action) THEN [f EXCEPT !.Action = word]
  ELSE IF tag = "NN" /\ ~Truthy(f.Actor) THEN [f EXCEPT !.Actor = word]
  ELSE IF tag = "NN" /\ Truthy(f.Actor) THEN [f EXCEPT !.Object = word]
  ELSE IF tag = "IN" THEN [f EXCEPT !.Modifier = word]
  ELSE f

\* semantic_frame is entered: tokens, tags and the empty frame.
FrameCall ==
  /\ pc = "start"
  /\ tokens' = simple_tokenize(text)
  /\ tags' = simple_pos_tag(simple_tokenize(text))
  /\ frame' = EmptyFrame
  /\ i' = 1
  /\ pc' = "frame_loop"
  /\ UNCHANGED <<text, words, senses, structural, unl, G>>

\* One iteration of the loop over tags.
FrameStep ==
  /\ pc = "frame_loop"
  /\ i <= Len(tags)
  /\ frame' = FrameUpdate(frame, tags[i][1], tags[i][2])
  /\ i' = i + 1
  /\ UNCHANGED <<text, pc, words, senses, structural, tokens, tags, unl, G>>

\* The loop is exhausted and frame is returned.
FrameReturn ==
  /\ pc = "frame_loop"
  /\ i > Len(tags)
  /\ pc' = "frame_returned"
  /\ UNCHANGED <<text, words, senses, structural, tokens, tags, frame, i, unl, G>>

----------------------------------------------------------------------------
(* The relation strings and the graph built from them *)

agt == <<"a","g","t">>
obj == <<"o","b","j">>
mod == <<"m","o","d">>

\* f"{rel}({a},{b})"
Format(rel, a, b) ==
  rel \o <<"(">> \o PyStr(a) \o <<",">> \o PyStr(b) \o <<")">>

\* Relations whose actor or object is unset are left out.
to_unl_SuppressUnset(f) ==
  IF Truthy(f.Action)
  THEN LET u1 == IF Truthy(f.Actor)
                 THEN <<Format(agt, f.Action, f.Actor)>> ELSE <<>>
           u2 == IF Truthy(f.Object)
                 THEN Append(u1, Format(obj, f.Action, f.Object)) ELSE u1
       IN IF Truthy(f.Modifier)
          THEN Append(u2, Format(mod, f.Action, f.Modifier))
          ELSE u2
  ELSE <<>>

\* The obj relation appended before the agt relation.
to_unl_ObjFirst(f) ==
  IF Truthy(f.Action)
  THEN LET u1 == Append(<<>>, Format(obj, f.Action, f.Object))
           u2 == Append(u1, Format(agt, f.Action, f.Actor))
       IN IF Truthy(f.Modifier)
          THEN Append(u2, Format(mod, f.Action, f.Modifier))
          ELSE u2
  ELSE <<>>

to_unl(f) ==
  IF Truthy(f.Action)
  THEN LET u1 == Append(<<>>, Format(agt, f.Action, f.Actor))
           u2 == Append(u1, Format(obj, f.Action, f.Object))
       IN IF Truthy(f.Modifier)
          THEN Append(u2, Format(mod, f.Action, f.Modifier))
          ELSE u2
  ELSE <<>>

\* add_edge that leaves an existing edge's label as it is.
AddEdgeKeepFirst(g, a, b, rel) ==
  [nodes |-> g.nodes \cup {a, b},
   edges |-> IF <<a, b>> \in DOMAIN g.edges
             THEN g.edges
             ELSE DictPut(g.edges, <<a, b>>, rel)]

\* DiGraph.add_edge(a, b, label=rel): both nodes are added, and the edge is
\* keyed by (a, b), so its label is replaced if the edge exists.
AddEdge(g, a, b, rel) ==
  [nodes |-> g.nodes \cup {a, b},
   edges |-> DictPut(g.edges, <<a, b>>, rel)]

\* unl = to_unl(frame); a non-empty unl starts the graph with G = DiGraph().
UnlCall ==
  /\ pc = "frame_returned"
  /\ unl' = to_unl(frame)
  /\ G' = EmptyGraph
  /\ i' = 1
  /\ pc' = IF to_unl(frame) # <<>> THEN "graph_loop" ELSE "done"
  /\ UNCHANGED <<text, words, senses, structural, tokens, tags, frame>>

\* One iteration of the loop over unl: the relation string is split at "("
\* and at ",", and a tuple assignment of other than two parts raises
\* ValueError.
GraphStep ==
  /\ pc = "graph_loop"
  /\ i <= Len(unl)
  /\ LET parts == Split(unl[i], "(")
     IN IF Len(parts) # 2
        THEN /\ pc' = "raised"
             /\ UNCHANGED <<G, i>>
        ELSE LET rel == parts[1]
                 args == Split(Strip(parts[2], ")"), ",")
             IN IF Len(args) # 2
                THEN /\ pc' = "raised"
                     /\ UNCHANGED <<G, i>>
                ELSE /\ G' = AddEdge(G, args[1], args[2], rel)
                     /\ i' = i + 1
                     /\ pc' = IF i = Len(unl) THEN "done" ELSE pc
  /\ UNCHANGED <<text, words, senses, structural, tokens, tags, frame, unl>>

Init ==
  /\ text \in Sentences(FrameWords) \cup {DefaultText}
  /\ InitRest

Next == FrameCall \/ FrameStep \/ FrameReturn \/ UnlCall \/ GraphStep

\* The calls of semantic_frame and to_unl and the graph construction loop.
Spec == Init /\ [][Next]_vars

----------------------------------------------------------------------------
(* Properties *)

\* The text of relation pred(a,b).
RelString(pred, a, b) == pred \o <<"(">> \o a \o <<",">> \o b \o <<")">>

\* The argument that stands for an unset slot in a relation.
Placeholder == <<"N","o","n","e">>

Arg(slot) == IF slot = None THEN Placeholder ELSE slot

IsVB(p) == p[2] = "VB"
IsNN(p) == p[2] = "NN"
IsIN(p) == p[2] = "IN"

\* The tagged tokens the loop of semantic_frame has visited so far.
Visited == IF pc = "frame_loop" THEN SubSeq(tags, 1, i - 1) ELSE tags

VisitedVB == SelectSeq(Visited, IsVB)
VisitedNN == SelectSeq(Visited, IsNN)
VisitedIN == SelectSeq(Visited, IsIN)

LexReturned == pc \in {"lex_returned", "struct_returned"}
UnlReturned == pc \in {"graph_loop", "done"}

\* C1: lexical_disambiguation, structural_disambiguation, semantic_frame and
\* to_unl return on every sentence: no call ever raises.
C1_PipelineTotal == pc # "raised"

C5_RelationsOfFrame ==
  UnlReturned =>
    unl = IF frame.Action = None THEN <<>>
          ELSE IF frame.Modifier = None
          THEN <<RelString(agt, frame.Action, Arg(frame.Actor)),
                 RelString(obj, frame.Action, Arg(frame.Object))>>
          ELSE <<RelString(agt, frame.Action, Arg(frame.Actor)),
                 RelString(obj, frame.Action, Arg(frame.Object)),
                 RelString(mod, frame.Action, frame.Modifier)>>

C5_Witness ==
  /\ pc = "done"
  /\ frame.Action # None
  /\ frame.Actor = None
  /\ frame.Object = None
  /\ frame.Modifier # None
  /\ Len(unl) = 3

\* The relations of the frame as (predicate, argument1, argument2).
Relations ==
  IF frame.Action = None THEN <<>>
  ELSE <<<<agt, frame.Action, Arg(frame.Actor)>>,
         <<obj, frame.Action, Arg(frame.Object)>>>>
       \o (IF frame.Modifier = None THEN <<>>
           ELSE <<<<mod, frame.Action, frame.Modifier>>>>)

LastWith(pair) ==
  CHOOSE k \in DOMAIN Relations :
    /\ <<Relations[k][2], Relations[k][3]>> = pair
    /\ \A m \in DOMAIN Relations :
         <<Relations[m][2], Relations[m][3]>> = pair => m <= k

\* C6: once the graph is built from the relation sequence, its edges are
\* exactly the ordered argument pairs of the relations, each labelled with
\* the predicate of the last relation having that pair, and its nodes are
\* exactly the arguments.
C6_GraphOfRelations ==
  pc = "done" =>
    /\ Len(unl) = Len(Relations)
    /\ \A k \in DOMAIN Relations :
         unl[k] = RelString(Relations[k][1], Relations[k][2], Relations[k][3])
    /\ DOMAIN G.edges = {<<r[2], r[3]>> : r \in Range(Relations)}
    /\ \A p \in DOMAIN G.edges : G.edges[p] = Relations[LastWith(p)][1]
    /\ G.nodes = {r[2] : r \in Range(Relations)} \cup {r[3] : r \in Range(Relations)}

C6_Witness ==
  /\ pc = "done"
  /\ frame.Actor # None
  /\ frame.Actor = frame.Object
  /\ frame.Modifier # None
  /\ Len(unl) = 3
  /\ Cardinality(DOMAIN G.edges) = 2
  /\ G.edges[<<frame.Action, frame.Actor>>] = obj

\* C7: at every point of the pass Modifier is the latest IN-tagged token
\* visited, and it is unset exactly while no IN-tagged token has been visited.
C7_ModifierIsLastPreposition ==
  frame.Modifier =
    IF VisitedIN = <<>> THEN None ELSE VisitedIN[Len(VisitedIN)][1]

C7_Witness ==
  /\ pc = "frame_returned"
  /\ Len(VisitedIN) >= 2
  /\ VisitedIN[1][1] # VisitedIN[Len(VisitedIN)][1]
  /\ frame.Modifier = VisitedIN[Len(VisitedIN)][1]

\* C8: at every point of the pass Action is the first VB-tagged token
\* visited and Actor the first NN-tagged token visited, each unset exactly
\* while no token with that tag has been visited.
C8_FirstVerbFirstNoun ==
  /\ frame.Action = IF VisitedVB = <<>> THEN None ELSE VisitedVB[1][1]
  /\ frame.Actor = IF VisitedNN = <<>> THEN None ELSE VisitedNN[1][1]

C8_Witness ==
  /\ pc = "frame_returned"
  /\ Len(VisitedVB) >= 2
  /\ VisitedVB[1][1] # VisitedVB[2][1]
  /\ Len(VisitedNN) >= 2
  /\ VisitedNN[1][1] # VisitedNN[2][1]
  /\ frame.Action = VisitedVB[1][1]
  /\ frame.Actor = VisitedNN[1][1]

\* C9: when lexical_disambiguation returns, the keys of senses are exactly
\* the tokens of the sentence that are knowledge-base keys, and each maps
\* to one of that word's senses.
C9_SenseKeys ==
  LexReturned =>
    /\ DOMAIN senses =
         {w \in Range(simple_tokenize(text)) : w \in DOMAIN lexical_db}
    /\ \A w \in DOMAIN senses : senses[w] \in Range(lexical_db[w])

C9_Witness ==
  /\ LexReturned
  /\ text = Join(<<Bank, banks, bank>>)
  /\ DOMAIN senses = {bank}
  /\ senses[bank] = "financial institution"

\* C10: when Action is set, every edge of the graph leaves the Action word
\* for a different string; there are as many edges as relations, except
\* that when Actor and Object hold the same value there is one edge fewer
\* and the edge to that value is labelled obj.
C10_EdgesOfFrame ==
  (pc = "done" /\ frame.Action # None) =>
    /\ \A p \in DOMAIN G.edges : p[1] = frame.Action /\ p[2] # p[1]
    /\ Cardinality(DOMAIN G.edges) =
         IF frame.Actor = frame.Object THEN Len(unl) - 1 ELSE Len(unl)
    /\ frame.Actor = frame.Object =>
         G.edges[<<frame.Action, Arg(frame.Actor)>>] = obj

C10_Witness ==
  /\ pc = "done"
  /\ frame.Action # None
  /\ frame.Actor = None
  /\ frame.Object = None
  /\ frame.Modifier # None
  /\ Len(unl) = 3
  /\ Cardinality(DOMAIN G.edges) = 2
  /\ G.edges[<<frame.Action, Placeholder>>] = obj

====
